---- MODULE Spec2Model ----
(***************************************************************************)
(* Model of app/app.py, the Streamlit script of the Cognitive              *)
(* Self-Assessment System.  One script execution runs the file top to      *)
(* bottom: load_models() (cached by st.cache_resource), the eleven         *)
(* widgets, and, when the button was pressed, the analysis run.            *)
(***************************************************************************)
EXTENDS Integers, Sequences, FiniteSets, TLC

VARIABLES
    disk,    \* the four artifact files under models/ (static during a process)
    cache,   \* st.cache_resource's entry for load_models: <<>> or <<artifacts>>
    reads,   \* reads[k]: how many times joblib.load read artifact k from disk
    loads,   \* how many times the body of load_models ran (cache misses)
    page,    \* what the last script execution rendered: "none", "error", "form"
    models,  \* the globals assigned at line 67: <<>> or <<artifacts>>
    inp,     \* the widget values of the current script execution
    edits,   \* how many widget changes the user made since the page was opened
    out      \* what the analysis run of the current script execution produced

vars == <<disk, cache, reads, loads, page, models, inp, edits, out>>

----------------------------------------------------------------------------
(* Bounds of the model *)

\* largest decision_feature_count the artifact file may hold
MaxFeatureCount == 8
\* largest cluster id the opaque clustering model may return
MaxClusterId == 5
\* how many times the body of load_models may run in one process
MaxLoads == 2
\* how many widgets the user may change before the page is opened afresh
MaxEdits == 2

----------------------------------------------------------------------------
(* Widgets: lines 74-106 *)

WORK_INTERFERE_OPTIONS == <<"Never", "Rarely", "Sometimes", "Often">>
YES_NO_OPTIONS == <<"No", "Yes">>

SCREEN_TIME_RANGE == 30..900
SLEEP_RANGE == 3..10
FOCUS_RANGE == 1..10
MOOD_RANGE == 1..10
ANXIETY_RANGE == 1..10
WELLBEING_RANGE == 1..10

CategoricalFields ==
    {"work_interfere", "mental_consequence", "treatment", "benefits", "care_options"}

Elements(s) == {s[i] : i \in 1..Len(s)}

\* the option list a selectbox is built with
Options(f) ==
    IF f = "work_interfere" THEN WORK_INTERFERE_OPTIONS ELSE YES_NO_OPTIONS

\* the values a widget can return
WidgetRange(f) ==
    CASE f \in CategoricalFields -> Elements(Options(f))
      [] f = "daily_screen_time" -> SCREEN_TIME_RANGE
      [] f = "sleep_hours" -> SLEEP_RANGE
      [] f = "focus_score" -> FOCUS_RANGE
      [] f = "mood_score" -> MOOD_RANGE
      [] f = "anxiety_level" -> ANXIETY_RANGE
      [] f = "digital_wellbeing" -> WELLBEING_RANGE

\* the value of each widget when a page is first rendered: a selectbox shows
\* its first option, a slider its third argument
DefaultInputs ==
    [work_interfere |-> "Never", mental_consequence |-> "No", treatment |-> "No",
     benefits |-> "No", care_options |-> "No",
     daily_screen_time |-> 300, sleep_hours |-> 7, focus_score |-> 6,
     mood_score |-> 6, anxiety_level |-> 4, digital_wellbeing |-> 6]

----------------------------------------------------------------------------
(* Load Models: lines 55-67 *)

ArtifactFiles ==
    <<"cognitive_kmeans.pkl", "cognitive_scaler.pkl", "decision_rf.pkl",
      "decision_feature_count.pkl">>

\* The files on disk: fail_at = 0 when all four load, k when joblib.load of
\* the k-th file raises (missing or corrupt); dfc is the integer pickled in
\* decision_feature_count.pkl.
DiskStates ==
    {[fail_at |-> 0, dfc |-> n] : n \in 0..MaxFeatureCount}
        \cup {[fail_at |-> k, dfc |-> 0] : k \in 1..4}

\* The body of load_models: four joblib.load calls in order; the first that
\* raises ends the call, the files before it have been read.
load_models(d, r) ==
    IF d.fail_at = 0
    THEN [ok |-> TRUE,
          value |-> [cognitive_model |-> ArtifactFiles[1],
                     cognitive_scaler |-> ArtifactFiles[2],
                     decision_model |-> ArtifactFiles[3],
                     decision_feature_count |-> d.dfc],
          reads |-> [k \in 1..4 |-> r[k] + 1]]
    ELSE [ok |-> FALSE,
          value |-> [cognitive_model |-> "", cognitive_scaler |-> "",
                     decision_model |-> "", decision_feature_count |-> 0],
          reads |-> [k \in 1..4 |-> IF k < d.fail_at THEN r[k] + 1 ELSE r[k]]]

\* a decorator that never finds its entry: every call runs the body
uncached_load_models(c, d, r, l) ==
    LET res == load_models(d, r)
    IN  [ok |-> res.ok, value |-> res.value,
         cache |-> IF res.ok THEN <<res.value>> ELSE c,
         reads |-> res.reads, loads |-> l + 1]

\* @st.cache_resource around load_models: a cached value is returned without
\* running the body; otherwise the body runs and its return value is stored.
\* An exception of the body propagates and stores nothing.
cached_load_models(c, d, r, l) ==
    IF c # <<>>
    THEN [ok |-> TRUE, value |-> c[1], cache |-> c, reads |-> r, loads |-> l]
    ELSE LET res == load_models(d, r)
         IN  [ok |-> res.ok, value |-> res.value,
              cache |-> IF res.ok THEN <<res.value>> ELSE c,
              reads |-> res.reads, loads |-> l + 1]

----------------------------------------------------------------------------
(* Cognitive Score: lines 111-118 *)

Min(a, b) == IF a < b THEN a ELSE b

\* anxiety counted for the score instead of against it
raw_score_anxiety_added(in) ==
    in.anxiety_level * 5 + in.focus_score * 5 + in.mood_score * 3
        + in.sleep_hours * 4 + in.digital_wellbeing * 3

\* mood weighted like focus
raw_score_mood_weight(in) ==
    (10 - in.anxiety_level) * 5 + in.focus_score * 5 + in.mood_score * 5
        + in.sleep_hours * 4 + in.digital_wellbeing * 3

\* lines 112-117: the local score before the clamp
raw_score(in) ==
    LET s0 == 0
        s1 == s0 + (10 - in.anxiety_level) * 5
        s2 == s1 + in.focus_score * 5
        s3 == s2 + in.mood_score * 3
        s4 == s3 + in.sleep_hours * 4
        s5 == s4 + in.digital_wellbeing * 3
    IN  s5

\* the clamp left out
unclamped_cognitive_score(in) == raw_score(in)

\* max written for min
max_cognitive_score(in) == IF raw_score(in) > 100 THEN raw_score(in) ELSE 100

\* line 118: min(int(score), 100); int() of an integer is that integer
compute_cognitive_score(in) == Min(raw_score(in), 100)

----------------------------------------------------------------------------
(* Encode Cognitive Input: lines 123-136 *)

\* positions counted from one
list_index_one_based(list, x) ==
    IF \E i \in 1..Len(list) : list[i] = x
    THEN [err |-> "",
          value |-> CHOOSE i \in 1..Len(list) :
                        /\ list[i] = x
                        /\ \A j \in 1..(i - 1) : list[j] # x]
    ELSE [err |-> "ValueError", value |-> -1]

\* an unknown label encoded as 0 instead of raising
list_index_default(list, x) ==
    IF \E i \in 1..Len(list) : list[i] = x
    THEN [err |-> "",
          value |-> (CHOOSE i \in 1..Len(list) :
                        /\ list[i] = x
                        /\ \A j \in 1..(i - 1) : list[j] # x) - 1]
    ELSE [err |-> "", value |-> 0]

\* Python's list.index: the zero-based position of the first element equal
\* to x, ValueError when there is none
list_index(list, x) ==
    IF \E i \in 1..Len(list) : list[i] = x
    THEN [err |-> "",
          value |-> (CHOOSE i \in 1..Len(list) :
                        /\ list[i] = x
                        /\ \A j \in 1..(i - 1) : list[j] # x) - 1]
    ELSE [err |-> "ValueError", value |-> -1]

\* The one-row DataFrame as the sequence of its <<column, value>> pairs in
\* column order; the dict literal is evaluated top to bottom, so the first
\* failing index call raises and no DataFrame is built.
encode_cognitive_input(in) ==
    LET wi == list_index(WORK_INTERFERE_OPTIONS, in.work_interfere)
        mc == list_index(YES_NO_OPTIONS, in.mental_consequence)
        tr == list_index(YES_NO_OPTIONS, in.treatment)
        be == list_index(YES_NO_OPTIONS, in.benefits)
        co == list_index(YES_NO_OPTIONS, in.care_options)
        errs == SelectSeq(<<wi.err, mc.err, tr.err, be.err, co.err>>,
                          LAMBDA e : e # "")
    IN  IF errs # <<>>
        THEN [err |-> Head(errs), row |-> <<>>]
        ELSE [err |-> "",
              row |-> << <<"work_interfere", wi.value>>,
                         <<"mental_health_consequence", mc.value>>,
                         <<"treatment", tr.value>>,
                         <<"benefits", be.value>>,
                         <<"care_options", co.value>>,
                         <<"daily_screen_time_min", in.daily_screen_time>>,
                         <<"sleep_hours", in.sleep_hours>>,
                         <<"focus_score", in.focus_score>>,
                         <<"mood_score", in.mood_score>>,
                         <<"anxiety_level", in.anxiety_level>>,
                         <<"digital_wellbeing_score", in.digital_wellbeing>> >>]

----------------------------------------------------------------------------
(* Decision Vector Builder: lines 141-156 *)

Zeros(k) == [i \in 1..k |-> 0]

\* np.pad(v, (before, after)): constant mode, zeros on both sides
np_pad(v, before, after) == Zeros(before) \o v \o Zeros(after)

\* v[:n] for n >= 0
slice_to(v, n) == SubSeq(v, 1, Min(n, Len(v)))

\* v.reshape(1, -1): one row holding all the elements
reshape_row(v) == <<v>>

\* lines 142-149; dtype=float holds these integers exactly
base_vector(in) ==
    <<in.daily_screen_time, in.sleep_hours, in.focus_score, in.mood_score,
      in.anxiety_level, in.digital_wellbeing>>

\* the else branch leaves base as it is
build_decision_vector_pad_only(in, n) ==
    LET base == base_vector(in)
    IN  reshape_row(IF Len(base) < n THEN np_pad(base, 0, n - Len(base)) ELSE base)

\* the zeros put in front, the slice taken from the end
build_decision_vector_wrong_side(in, n) ==
    LET base == base_vector(in)
    IN  reshape_row(IF Len(base) < n
                    THEN np_pad(base, n - Len(base), 0)
                    ELSE SubSeq(base, Len(base) - n + 1, Len(base)))

build_decision_vector(in, n) ==
    LET base == base_vector(in)
    IN  reshape_row(IF Len(base) < n
                    THEN np_pad(base, 0, n - Len(base))
                    ELSE slice_to(base, n))

----------------------------------------------------------------------------
(* Run Analysis: lines 163-217 *)

\* Python's None; st.success and the f-string both render it as this text
None == "None"

\* lines 177-181
cluster_map ==
    (0 :> "Balanced Cognitive State")
        @@ (1 :> "High Cognitive Load & Anxiety")
        @@ (2 :> "Low Focus & Digital Fatigue")

\* dict.get(key): the value, or None when the key is absent
dict_get(d, key) == IF key \in DOMAIN d THEN d[key] ELSE None

\* what the two pre-trained models can return; they are opaque to the script
\* and their transform and predict calls are taken to return
ClusterIds == 0..MaxClusterId
DecisionStyles == {"Analytical", "Intuitive"}

\* nothing produced: the button was not pressed in this script execution
NoResult ==
    [ran |-> FALSE, err |-> "", score |-> 0, record |-> <<>>, cluster |-> -1,
     profile |-> "", vector |-> <<>>, style |-> "", explained |-> "",
     calls |-> <<>>]

\* The body of the button branch, with cid and style the values the two
\* predict calls return.  An exception of encode_cognitive_input leaves the
\* branch at line 173: the score has been shown, nothing after it has run.
run_analysis(in, mdl, cid, style) ==
    LET cognitive_score == compute_cognitive_score(in)
        user_df == encode_cognitive_input(in)
    IN  IF user_df.err # ""
        THEN [NoResult EXCEPT !.ran = TRUE, !.score = cognitive_score,
                              !.err = user_df.err]
        ELSE [ran |-> TRUE, err |-> "", score |-> cognitive_score,
              record |-> user_df.row,
              cluster |-> cid,
              profile |-> dict_get(cluster_map, cid),
              vector |-> build_decision_vector(in, mdl.decision_feature_count),
              style |-> style,
              explained |-> dict_get(cluster_map, cid),
              calls |-> <<"cognitive_scaler.transform", "cognitive_model.predict",
                          "decision_model.predict">>]

----------------------------------------------------------------------------
(* The script executions of one server process *)

\* the values the user is taken to choose: every option of a selectbox, the
\* lowest, the default and the highest value of a slider
Picks(f) ==
    CASE f \in CategoricalFields -> WidgetRange(f)
      [] f = "daily_screen_time" -> {30, 300, 900}
      [] f = "sleep_hours" -> {3, 7, 10}
      [] OTHER -> {1, DefaultInputs[f], 10}

\* One execution of the script with widget values in: line 67, then the
\* widgets, then the button branch when pressed.  An exception of
\* load_models ends the execution before any widget exists.
Execute(in, pressed, cid, style) ==
    LET ld == cached_load_models(cache, disk, reads, loads)
    IN  /\ cache # <<>> \/ loads < MaxLoads
        /\ cache' = ld.cache
        /\ reads' = ld.reads
        /\ loads' = ld.loads
        /\ disk' = disk
        /\ IF ld.ok
           THEN /\ models' = <<ld.value>>
                /\ page' = "form"
                /\ inp' = in
                /\ out' = IF pressed
                          THEN run_analysis(in, ld.value, cid, style)
                          ELSE NoResult
           ELSE /\ models' = <<>>
                /\ page' = "error"
                /\ inp' = DefaultInputs
                /\ out' = NoResult

\* a browser opens or reloads the page: a new session, widgets at defaults
OpenPage ==
    /\ edits' = 0
    /\ Execute(DefaultInputs, FALSE, 0, "")

\* the user changes one widget: the script reruns, the button reads False
SetWidget ==
    /\ page = "form"
    /\ edits < MaxEdits
    /\ edits' = edits + 1
    /\ \E f \in DOMAIN inp : \E v \in Picks(f) :
          /\ v # inp[f]
          /\ Execute([inp EXCEPT ![f] = v], FALSE, 0, "")

\* the user presses "Analyze My Profile": the script reruns, the button
\* reads True
Analyze ==
    /\ page = "form"
    /\ edits' = edits
    /\ \E cid \in ClusterIds : \E style \in DecisionStyles :
          Execute(inp, TRUE, cid, style)

Init ==
    /\ disk \in DiskStates
    /\ cache = <<>>
    /\ reads = [k \in 1..4 |-> 0]
    /\ loads = 0
    /\ page = "none"
    /\ models = <<>>
    /\ inp = DefaultInputs
    /\ edits = 0
    /\ out = NoResult

Next == OpenPage \/ SetWidget \/ Analyze

Spec == Init /\ [][Next]_vars

----------------------------------------------------------------------------
(* compute_cognitive_score over every valid input *)

\* the process after a first script execution that loaded its artifacts
LoadedProcess(n) ==
    LET ld == cached_load_models(<<>>, [fail_at |-> 0, dfc |-> n],
                                 [k \in 1..4 |-> 0], 0)
    IN  /\ disk = [fail_at |-> 0, dfc |-> n]
        /\ cache = ld.cache
        /\ reads = ld.reads
        /\ loads = ld.loads
        /\ page = "form"
        /\ models = <<ld.value>>
        /\ edits = 0
        /\ out = NoResult

InitScore ==
    /\ LoadedProcess(6)
    /\ inp \in {[DefaultInputs EXCEPT !.anxiety_level = a, !.focus_score = f,
                                      !.mood_score = m, !.sleep_hours = s,
                                      !.digital_wellbeing = w,
                                      !.daily_screen_time = t] :
                   a \in ANXIETY_RANGE, f \in FOCUS_RANGE, m \in MOOD_RANGE,
                   s \in SLEEP_RANGE, w \in WELLBEING_RANGE,
                   t \in Picks("daily_screen_time")}

\* lines 166-170: the score is computed and shown
ShowScore ==
    /\ page = "form"
    /\ ~out.ran
    /\ out' = [NoResult EXCEPT !.ran = TRUE,
                               !.score = compute_cognitive_score(inp)]
    /\ UNCHANGED <<disk, cache, reads, loads, page, models, inp, edits>>

NextScore == ShowScore

SpecScore == InitScore /\ [][NextScore]_vars

----------------------------------------------------------------------------
(* The analysis run on answers a selectbox could not have returned *)

\* answers handed to the encoder: the field's own options, a label of the
\* other option list, and a label of neither
Answers(f) ==
    WidgetRange(f)
        \cup {"Maybe"}
        \cup (IF f = "work_interfere" THEN {"Yes"} ELSE {"Often"})

InitEncode ==
    /\ LoadedProcess(6)
    /\ inp \in {[DefaultInputs EXCEPT !.work_interfere = wi,
                                      !.mental_consequence = mc,
                                      !.treatment = tr, !.benefits = be,
                                      !.care_options = co] :
                   wi \in Answers("work_interfere"),
                   mc \in Answers("mental_consequence"),
                   tr \in Answers("treatment"),
                   be \in Answers("benefits"),
                   co \in Answers("care_options")}

NextEncode == Analyze

SpecEncode == InitEncode /\ [][NextEncode]_vars

ValidAnswers(in) ==
    \A f \in CategoricalFields : in[f] \in Elements(Options(f))

----------------------------------------------------------------------------
(* Claims *)

\* C1: for every valid input the value compute_cognitive_score returns is an
\* integer between 0 and 100.
ScoreInRange ==
    out.ran => out.score \in 0..100

\* C1 witness: a score was computed for an input whose unclamped sum
\* exceeds 100.
ScoreInRangeWitness ==
    out.ran /\ raw_score(inp) > 100 /\ out.score = 100

\* C2: the score is min((10-anxiety)*5 + focus*5 + mood*3 + sleep*4 +
\* wellbeing*3, 100); the defaults 4,6,6,7,6 give 100, the minimum input
\* 10,1,1,3,1 gives 23, and neither the screen time nor any categorical
\* answer changes it.
ScoreFormula ==
    out.ran =>
        /\ out.score = Min((10 - inp.anxiety_level) * 5 + inp.focus_score * 5
                             + inp.mood_score * 3 + inp.sleep_hours * 4
                             + inp.digital_wellbeing * 3, 100)
        /\ (inp.anxiety_level = 4 /\ inp.focus_score = 6 /\ inp.mood_score = 6
              /\ inp.sleep_hours = 7 /\ inp.digital_wellbeing = 6)
               => out.score = 100
        /\ (inp.anxiety_level = 10 /\ inp.focus_score = 1 /\ inp.mood_score = 1
              /\ inp.sleep_hours = 3 /\ inp.digital_wellbeing = 1)
               => out.score = 23
        /\ \A t \in {30, 450, 900} :
              compute_cognitive_score([inp EXCEPT !.daily_screen_time = t])
                  = out.score
        /\ \A f \in CategoricalFields : \A v \in WidgetRange(f) :
              compute_cognitive_score([inp EXCEPT ![f] = v]) = out.score

\* C2 witness: the score of the all-minimum input has been computed.
ScoreFormulaWitness ==
    /\ out.ran
    /\ inp.anxiety_level = 10 /\ inp.focus_score = 1 /\ inp.mood_score = 1
    /\ inp.sleep_hours = 3 /\ inp.digital_wellbeing = 1
    /\ out.score = 23

\* C7: with the other inputs fixed the score does not decrease when focus,
\* mood, sleep or wellbeing grows, and does not increase when anxiety grows.
ScoreMonotone ==
    out.ran =>
        /\ \A f \in {"focus_score", "mood_score", "sleep_hours",
                     "digital_wellbeing"} :
              \A v \in WidgetRange(f) :
                 v >= inp[f] =>
                    compute_cognitive_score([inp EXCEPT ![f] = v]) >= out.score
        /\ \A v \in ANXIETY_RANGE :
              v >= inp.anxiety_level =>
                 compute_cognitive_score([inp EXCEPT !.anxiety_level = v])
                     <= out.score

\* C7 witness: a computed score that a higher focus raises and a higher
\* anxiety lowers.
ScoreMonotoneWitness ==
    /\ out.ran
    /\ \E v \in FOCUS_RANGE :
          /\ v > inp.focus_score
          /\ compute_cognitive_score([inp EXCEPT !.focus_score = v]) > out.score
    /\ \E v \in ANXIETY_RANGE :
          /\ v > inp.anxiety_level
          /\ compute_cognitive_score([inp EXCEPT !.anxiety_level = v]) < out.score

\* C8 as stated: the unclamped sum never exceeds 100 for a valid input, so
\* the clamp never changes the value.
ClampNeverActs ==
    out.ran => (raw_score(inp) <= 100 /\ out.score = raw_score(inp))

\* C8 amended: the unclamped sum of a valid input lies between 23 and 195;
\* the clamp replaces every sum above 100 by 100 and leaves the others.
ClampActsAbove100 ==
    out.ran =>
        /\ raw_score(inp) \in 23..195
        /\ raw_score(inp) > 100 => (out.score = 100 /\ out.score # raw_score(inp))
        /\ raw_score(inp) <= 100 => out.score = raw_score(inp)

\* C8 witness: the score of the input with the largest unclamped sum, 195,
\* has been computed and clamped.
ClampActsWitness ==
    out.ran /\ raw_score(inp) = 195 /\ inp.anxiety_level = 1 /\ out.score = 100

\* C3: for any decision_feature_count n >= 0 (0, below 6, 6, above 6)
\* build_decision_vector returns, without raising, a single row of width n.
VectorWidth ==
    (out.ran /\ out.err = "") =>
        /\ Len(out.vector) = 1
        /\ Len(out.vector[1]) = models[1].decision_feature_count

\* C3 witness: a run built the vector with decision_feature_count = 0.
VectorWidthWitness ==
    /\ out.ran /\ out.err = ""
    /\ models[1].decision_feature_count = 0
    /\ out.vector = << <<>> >>

\* C4: the row is [daily_screen_time, sleep_hours, focus_score, mood_score,
\* anxiety_level, digital_wellbeing] cut to its first n values when n < 6,
\* unchanged when n = 6, followed by n - 6 zeros when n > 6; the defaults
\* give [300,7,6,6] for n = 4 and [300,7,6,6,4,6,0,0] for n = 8.
VectorContents ==
    (out.ran /\ out.err = "") =>
        LET n == models[1].decision_feature_count
            six == <<inp.daily_screen_time, inp.sleep_hours, inp.focus_score,
                     inp.mood_score, inp.anxiety_level, inp.digital_wellbeing>>
            row == out.vector[1]
        IN  /\ DOMAIN row = 1..n
            /\ \A i \in 1..n : row[i] = IF i <= 6 THEN six[i] ELSE 0
            /\ (n = 6) => row = six
            /\ (n = 4 /\ six = <<300, 7, 6, 6, 4, 6>>) => row = <<300, 7, 6, 6>>
            /\ (n = 8 /\ six = <<300, 7, 6, 6, 4, 6>>)
                   => row = <<300, 7, 6, 6, 4, 6, 0, 0>>

\* C4 witness: a run with the default inputs and decision_feature_count = 8
\* built the zero-padded row.
VectorContentsWitness ==
    /\ out.ran /\ out.err = ""
    /\ models[1].decision_feature_count = 8
    /\ out.vector = << <<300, 7, 6, 6, 4, 6, 0, 0>> >>

\* C5 as stated: a run whose cluster id is 0, 1 or 2 shows that id's label;
\* a run whose cluster id is none of them does not raise, shows the fallback
\* label "Unrecognized Profile" and still produces the decision-style label.
UnknownClusterFallback ==
    (out.ran /\ out.err = "") =>
        /\ out.cluster = 0 => out.profile = "Balanced Cognitive State"
        /\ out.cluster = 1 => out.profile = "High Cognitive Load & Anxiety"
        /\ out.cluster = 2 => out.profile = "Low Focus & Digital Fatigue"
        /\ out.cluster \notin {0, 1, 2} =>
              /\ out.profile = "Unrecognized Profile"
              /\ out.style \in DecisionStyles

EncodedRecord ==
    (out.ran /\ out.err = "") =>
        LET codeOf(opts, c, label) ==
                c \in 0..(Len(opts) - 1) /\ opts[c + 1] = label
            Never4 == <<"Never", "Rarely", "Sometimes", "Often">>
            NoYes == <<"No", "Yes">>
            r == out.record
        IN  /\ [i \in DOMAIN r |-> r[i][1]] =
                   <<"work_interfere", "mental_health_consequence", "treatment",
                     "benefits", "care_options", "daily_screen_time_min",
                     "sleep_hours", "focus_score", "mood_score", "anxiety_level",
                     "digital_wellbeing_score">>
            /\ codeOf(Never4, r[1][2], inp.work_interfere)
            /\ codeOf(NoYes, r[2][2], inp.mental_consequence)
            /\ codeOf(NoYes, r[3][2], inp.treatment)
            /\ codeOf(NoYes, r[4][2], inp.benefits)
            /\ codeOf(NoYes, r[5][2], inp.care_options)
            /\ r[6][2] = inp.daily_screen_time
            /\ r[7][2] = inp.sleep_hours
            /\ r[8][2] = inp.focus_score
            /\ r[9][2] = inp.mood_score
            /\ r[10][2] = inp.anxiety_level
            /\ r[11][2] = inp.digital_wellbeing

\* C9 witness: a run encoded work_interfere = "Often" as 3 and
\* treatment = "No" as 0.
EncodedRecordWitness ==
    /\ out.ran /\ out.err = ""
    /\ inp.work_interfere = "Often" /\ inp.treatment = "No"
    /\ out.record[1] = <<"work_interfere", 3>>
    /\ out.record[3] = <<"treatment", 0>>

\* C10 as stated: each artifact is read from disk at most once in a process
\* lifetime, an analysis run happens only after a successful load and with
\* the loaded artifacts, and after a failed load no analysis run executes.
ArtifactsReadAtMostOnce ==
    /\ \A k \in 1..4 : reads[k] <= 1
    /\ out.ran => (cache # <<>> /\ models = cache)
    /\ disk.fail_at # 0 => ~out.ran

\* C10 amended: once a load has succeeded every artifact has been read
\* exactly once, the cached artifacts never change and are never read again;
\* an analysis run happens only after a successful load and with the cached
\* artifacts; a failed load ends the script execution with no widget and no
\* analysis run and caches nothing, so the next execution reads the files
\* before the failing one again.
ArtifactsLoadedOnce ==
    /\ [](cache # <<>> => \A k \in 1..4 : reads[k] = 1)
    /\ [](out.ran => (cache # <<>> /\ models = cache))
    /\ [](disk.fail_at # 0 => (~out.ran /\ cache = <<>> /\ page # "form"))
    /\ [](cache = <<>> =>
             \A k \in 1..4 : reads[k] = IF k < disk.fail_at THEN loads ELSE 0)
    /\ [][cache # <<>> => (cache' = cache /\ reads' = reads /\ loads' = loads)]_vars

\* C10 witness: an analysis run, at least the second script execution of the
\* process, used the artifacts of the only load.
ArtifactsLoadedOnceWitness ==
    /\ out.ran
    /\ loads = 1
    /\ \A k \in 1..4 : reads[k] = 1
    /\ models = cache

====
